---- MODULE Spec2Model ----
(***************************************************************************)
(* A model of VSPEC's GCM planet container (src/VSPEC/gcm/planet.py): the  *)
(* Winds / Molecules / Aerosols collections, Planet construction and       *)
(* validation, and the accessors that derive the PSG header and the        *)
(* binary payload; and of get_wavelengths (src/VSPEC/stellar_spectra.py),  *)
(* the loop that lays out the wavelength grid.                             *)
(*                                                                         *)
(* Text is modelled as a sequence of one-character strings, bytes as       *)
(* integers 0..255, angles as exact fractions <<num, den>>, and a Field as *)
(* a record of its name, its shape and its row-major values.  An           *)
(* operation that raises returns [err |-> <exception class>].              *)
(***************************************************************************)
EXTENDS Integers, Sequences, FiniteSets, TLC

\* input: the arguments of the call; planet: the Planet built; op: the last
\* operation (the position of a running call); ret: what it returned or raised;
\* frame: the local variables of a running get_wavelengths
VARIABLES input, planet, op, ret, frame

vars == <<input, planet, op, ret, frame>>

(***************************************************************************)
(* Bounds of the model.                                                    *)
(***************************************************************************)
MaxLayer == 2
MaxLon == 2
MaxLat == 2
MaxMol == 2
MaxAero == 2

(***************************************************************************)
(* Python values.                                                          *)
(***************************************************************************)
None == [none |-> TRUE]

Ok(v) == [err |-> "", val |-> v]

Raise(e) == [err |-> e, val |-> None]

(***************************************************************************)
(* Text: str.join, str.split, and the f-string conversions the code uses.  *)
(***************************************************************************)
RECURSIVE Concat(_)
Concat(ss) == IF ss = <<>> THEN <<>> ELSE Head(ss) \o Concat(Tail(ss))

\* a join that writes the entries last to first
RECURSIVE Join_reversed(_, _)
Join_reversed(sep, ss) ==
    IF ss = <<>> THEN <<>>
    ELSE IF Len(ss) = 1 THEN ss[1]
    ELSE Join_reversed(sep, Tail(ss)) \o sep \o ss[1]

RECURSIVE Join(_, _)
Join(sep, ss) ==
    IF ss = <<>> THEN <<>>
    ELSE IF Len(ss) = 1 THEN ss[1]
    ELSE ss[1] \o sep \o Join(sep, Tail(ss))

\* str.split(c): the pieces of s between its occurrences of c
Split(s, c) ==
    LET P == {i \in 1..Len(s) : s[i] = c}
        n == Cardinality(P)
        b == [k \in 0..(n + 1) |->
                 IF k = 0 THEN 0
                 ELSE IF k = n + 1 THEN Len(s) + 1
                 ELSE CHOOSE i \in P : Cardinality({j \in P : j < i}) = k - 1]
    IN  [k \in 1..(n + 1) |-> SubSeq(s, b[k - 1] + 1, b[k] - 1)]

Repeat(x, n) == [i \in 1..n |-> x]

Digits == <<"0","1","2","3","4","5","6","7","8","9">>

RECURSIVE NatToStr(_)
NatToStr(n) ==
    IF n < 10 THEN <<Digits[n + 1]>>
    ELSE NatToStr(n \div 10) \o <<Digits[(n % 10) + 1]>>

IntToStr(n) == IF n < 0 THEN <<"-">> \o NatToStr(-n) ELSE NatToStr(n)

DigitVal(c) == CHOOSE d \in 0..9 : Digits[d + 1] = c

RECURSIVE StrToNat(_)
StrToNat(s) ==
    IF s = <<>> THEN 0
    ELSE 10 * StrToNat(SubSeq(s, 1, Len(s) - 1)) + DigitVal(s[Len(s)])

\* round(num/den) to the nearest integer, ties to even (num >= 0, den > 0)
RoundHalfEven(num, den) ==
    LET q == num \div den
        r == num % den
    IN  IF 2 * r < den THEN q
        ELSE IF 2 * r > den THEN q + 1
        ELSE IF q % 2 = 0 THEN q ELSE q + 1

RECURSIVE GCD(_, _)
GCD(a, b) == IF b = 0 THEN a ELSE GCD(b, a % b)

\* 2^s modulo b
RECURSIVE PowMod2(_, _)
PowMod2(s, b) == IF s = 0 THEN 1 % b ELSE (2 * PowMod2(s - 1, b)) % b

\* the L with 2^L <= a/b < 2^(L+1), for a, b > 0
RECURSIVE FloorLog2(_, _)
FloorLog2(a, b) ==
    IF a < b THEN FloorLog2(2 * a, b) - 1
    ELSE IF a < 2 * b THEN 0
    ELSE FloorLog2(a, 2 * b) + 1

\* where the binary64 quotient a / b lies against the exact fraction a/b
\* (a, b > 0 in lowest terms): -1 below, 0 on it, 1 above.  The quotient is
\* the 53-bit mantissa nearest to a * 2^s / b, s = 52 - FloorLog2(a, b).
FloatError(a, b) ==
    LET s == 52 - FloorLog2(a, b)
        rem == ((a % b) * PowMod2(s, b)) % b
    IN  IF rem = 0 THEN 0 ELSE IF 2 * rem < b THEN -1 ELSE 1

\* f'{x:.2f}' of the float x = num / den (num, den > 0): the decimal nearest
\* to the binary64 value of the quotient.  Where the exact fraction is not
\* halfway between two decimals the float lies on the same side as the
\* fraction; where it is, the side is that of the float's rounding error, and
\* a float that is exactly halfway goes to the even decimal.
Fixed2(x) ==
    LET g == GCD(x[1], x[2])
        a == x[1] \div g
        b == x[2] \div g
        q == (100 * a) \div b
        r == (100 * a) % b
        h == IF 2 * r < b THEN q
             ELSE IF 2 * r > b THEN q + 1
             ELSE IF FloatError(a, b) < 0 THEN q
             ELSE IF FloatError(a, b) > 0 THEN q + 1
             ELSE RoundHalfEven(100 * a, b)
        c == h % 100
    IN  NatToStr(h \div 100) \o <<".">> \o <<Digits[(c \div 10) + 1], Digits[(c % 10) + 1]>>

(***************************************************************************)
(* Bytes: bytes(str, encoding='UTF-8') of ASCII text, and                  *)
(* ndarray.tobytes('C') of a float32 array on a little-endian machine.     *)
(***************************************************************************)
Upper == <<"A","B","C","D","E","F","G","H","I","J","K","L","M","N","O","P","Q","R","S","T","U","V","W","X","Y","Z">>

Lower == <<"a","b","c","d","e","f","g","h","i","j","k","l","m","n","o","p","q","r","s","t","u","v","w","x","y","z">>

Punct == <<" ", "(", ")", ",", "-", ".", "/", "<", ">", "[", "]", "_", "\n">>

PunctCode == <<32, 40, 41, 44, 45, 46, 47, 60, 62, 91, 93, 95, 10>>

IndexOf(seq, c) == CHOOSE i \in 1..Len(seq) : seq[i] = c

InSeq(seq, c) == \E i \in 1..Len(seq) : seq[i] = c

\* the code point of an ASCII character of the header alphabet
Ord(c) ==
    IF InSeq(Digits, c) THEN 47 + IndexOf(Digits, c)
    ELSE IF InSeq(Upper, c) THEN 64 + IndexOf(Upper, c)
    ELSE IF InSeq(Lower, c) THEN 96 + IndexOf(Lower, c)
    ELSE PunctCode[IndexOf(Punct, c)]

Utf8(s) == [i \in 1..Len(s) |-> Ord(s[i])]

RECURSIVE Pow2(_)
Pow2(n) == IF n = 0 THEN 1 ELSE 2 * Pow2(n - 1)

RECURSIVE Log2(_)
Log2(v) == IF v < 2 THEN 0 ELSE 1 + Log2(v \div 2)

\* the IEEE-754 binary32 bit pattern of the whole number v, 0 <= v < 2^24
Float32Bits(v) ==
    IF v = 0 THEN 0
    ELSE LET e == Log2(v)
         IN  (e + 127) * Pow2(23) + (v - Pow2(e)) * Pow2(23 - e)

Float32Bytes(v) ==
    LET b == Float32Bits(v)
    IN  <<b % 256, (b \div 256) % 256, (b \div 65536) % 256, (b \div 16777216) % 256>>

\* four bytes per element, in element order
ToBytes(a) ==
    [i \in 1..(4 * Len(a)) |-> Float32Bytes(a[((i - 1) \div 4) + 1])[((i - 1) % 4) + 1]]

(***************************************************************************)
(* numpy: concatenate raises ValueError on an empty list of arrays.        *)
(***************************************************************************)
np_concatenate(arrs) ==
    IF arrs = <<>> THEN Raise("ValueError") ELSE Ok(Concat(arrs))

RECURSIVE Prod(_)
Prod(sh) == IF sh = <<>> THEN 1 ELSE Head(sh) * Prod(Tail(sh))

(***************************************************************************)
(* VSPEC.gcm.structure: a Field is a named grid of a fixed shape; flat is  *)
(* its float32 values in row-major order; constant broadcasts a scalar.    *)
(***************************************************************************)
Field(name, shape, dat) == [name |-> name, shape |-> shape, dat |-> dat]

Field_constant(name, value, shape) == Field(name, shape, Repeat(value, Prod(shape)))

Field_flat(f) == f.dat

(***************************************************************************)
(* VSPEC.config: the static gas and aerosol type tables.  A gas type is a  *)
(* HITRAN number or a ready-made type string.                              *)
(***************************************************************************)
IntType(n) == [int |-> TRUE, v |-> n]

StrType(s) == [int |-> FALSE, v |-> s]

mtype == << <<<<"H","2","O">>, IntType(1)>>, <<<<"C","O","2">>, IntType(2)>>, <<<<"O">>, StrType(<<"K","Z","[","0","8","]"," ","O","x","y","g","e","n">>)>> >>

atype == << <<<<"W","a","t","e","r">>, <<"A","F","C","R","L","_","W","A","T","E","R","_","H","R","I">>>>, <<<<"W","a","t","e","r","I","c","e">>, <<"W","a","r","r","e","n","_","i","c","e","_","H","R","I">>>> >>

\* key in d, d[key] of a dict kept as a sequence of <<key, value>> in insertion order
HasKey(d, key) == \E i \in 1..Len(d) : d[i][1] = key

Lookup(d, key) == d[CHOOSE i \in 1..Len(d) : d[i][1] = key][2]

Keys(d) == [i \in 1..Len(d) |-> d[i][1]]

(***************************************************************************)
(* Winds, Molecules, Aerosols                                              *)
(***************************************************************************)
Winds(wind_u, wind_v) == [wind_u |-> wind_u, wind_v |-> wind_v]

\* Winds.flat with wind_v ahead of wind_u
Winds_flat_v_first(self) ==
    np_concatenate(<<Field_flat(self.wind_v), Field_flat(self.wind_u)>>)

Winds_flat(self) ==
    np_concatenate(<<Field_flat(self.wind_u), Field_flat(self.wind_v)>>)

Molecules(molecules) == [molecules |-> molecules]

Molecules_flat(self) ==
    np_concatenate([i \in 1..Len(self.molecules) |-> Field_flat(self.molecules[i])])

\* d: a mapping [items |-> <<name, abundance>>, ... in iteration order]
Molecules__from_dict(d, shape) ==
    Molecules([i \in 1..Len(d.items) |-> Field_constant(d.items[i][1], d.items[i][2], shape)])

Molecules_from_dict(d, shape) == Molecules__from_dict(d, shape)

Aerosols(aerosols, sizes) == [aerosols |-> aerosols, sizes |-> sizes]

\* Aerosols.flat with the size Fields ahead of the abundance Fields
Aerosols_flat_sizes_first(self) ==
    np_concatenate([i \in 1..Len(self.sizes) |-> Field_flat(self.sizes[i])]
                   \o [i \in 1..Len(self.aerosols) |-> Field_flat(self.aerosols[i])])

Aerosols_flat(self) ==
    np_concatenate([i \in 1..Len(self.aerosols) |-> Field_flat(self.aerosols[i])]
                   \o [i \in 1..Len(self.sizes) |-> Field_flat(self.sizes[i])])

\* d: a mapping [items |-> <<name, [abn, size]>>, ...]; the two lists the loop fills
Aerosols__from_dict_lists(d, shape) ==
    [aersols |-> [i \in 1..Len(d.items) |->
                    Field_constant(d.items[i][1], d.items[i][2].abn, shape)],
     sizes |-> [i \in 1..Len(d.items) |->
                    Field_constant(d.items[i][1] \o <<"_","s","i","z","e">>,
                                   d.items[i][2].size, shape)]]

\* the loop ends the function: no return statement, so the call returns None
Aerosols__from_dict(d, shape) ==
    LET built == Aerosols__from_dict_lists(d, shape)
    IN  None

Aerosols_from_dict(d, shape) == Aerosols__from_dict(d, shape)

(***************************************************************************)
(* Planet                                                                  *)
(***************************************************************************)
Planet(wind, tsurf, psurf, albedo, emissivity, temperature, pressure, molecules, aerosols) ==
    [wind |-> wind, tsurf |-> tsurf, psurf |-> psurf, albedo |-> albedo,
     emissivity |-> emissivity, temperature |-> temperature, pressure |-> pressure,
     molecules |-> molecules, aerosols |-> aerosols]

\* validate without the loop over the aerosol size Fields
validate_no_sizes(self) ==
    IF self.pressure = None THEN "TypeError"
    ELSE LET shape3d == self.pressure.shape
             shape2d == Tail(shape3d)
         IN  IF self.wind # None /\ self.wind.wind_u.shape # shape3d THEN "AssertionError"
             ELSE IF self.wind # None /\ self.wind.wind_v.shape # shape3d THEN "AssertionError"
             ELSE IF self.psurf = None THEN "AttributeError"
             ELSE IF self.psurf.shape # shape2d THEN "AssertionError"
             ELSE IF self.tsurf # None /\ self.tsurf.shape # shape2d THEN "AssertionError"
             ELSE IF self.albedo # None /\ self.albedo.shape # shape2d THEN "AssertionError"
             ELSE IF self.emissivity # None /\ self.emissivity.shape # shape2d THEN "AssertionError"
             ELSE IF self.temperature # None /\ self.temperature.shape # shape3d THEN "AssertionError"
             ELSE IF self.molecules # None
                     /\ \E i \in 1..Len(self.molecules.molecules) :
                           self.molecules.molecules[i].shape # shape3d THEN "AssertionError"
             ELSE IF self.aerosols # None
                     /\ \E i \in 1..Len(self.aerosols.aerosols) :
                           self.aerosols.aerosols[i].shape # shape3d THEN "AssertionError"
             ELSE ""

\* "" when every check passes, else the class of the exception raised first
validate(self) ==
    IF self.pressure = None THEN "TypeError"
    ELSE LET shape3d == self.pressure.shape
             shape2d == Tail(shape3d)
         IN  IF self.wind # None /\ self.wind.wind_u.shape # shape3d THEN "AssertionError"
             ELSE IF self.wind # None /\ self.wind.wind_v.shape # shape3d THEN "AssertionError"
             ELSE IF self.psurf = None THEN "AttributeError"
             ELSE IF self.psurf.shape # shape2d THEN "AssertionError"
             ELSE IF self.tsurf # None /\ self.tsurf.shape # shape2d THEN "AssertionError"
             ELSE IF self.albedo # None /\ self.albedo.shape # shape2d THEN "AssertionError"
             ELSE IF self.emissivity # None /\ self.emissivity.shape # shape2d THEN "AssertionError"
             ELSE IF self.temperature # None /\ self.temperature.shape # shape3d THEN "AssertionError"
             ELSE IF self.molecules # None
                     /\ \E i \in 1..Len(self.molecules.molecules) :
                           self.molecules.molecules[i].shape # shape3d THEN "AssertionError"
             ELSE IF self.aerosols # None
                     /\ \E i \in 1..Len(self.aerosols.aerosols) :
                           self.aerosols.aerosols[i].shape # shape3d THEN "AssertionError"
             ELSE IF self.aerosols # None
                     /\ \E i \in 1..Len(self.aerosols.sizes) :
                           self.aerosols.sizes[i].shape # shape3d THEN "AssertionError"
             ELSE ""

\* (nlayers, nlon, nlat)
shape(self) == self.pressure.shape

\* np.linspace(-180,180,nlon,endpoint=False), in degrees
lons(self) ==
    LET nlon == shape(self)[2]
    IN  [i \in 1..nlon |-> <<(-180) * nlon + 360 * (i - 1), nlon>>]

dlon(self) == <<360, shape(self)[2]>>

\* dlat computed from the number of longitudes
dlat_by_nlon(self) == <<180, shape(self)[2]>>

dlat(self) == <<180, shape(self)[3]>>

\* np.linspace(-90,90,nlat,endpoint=True), in degrees
lats(self) ==
    LET nlat == shape(self)[3]
    IN  IF nlat = 1 THEN << <<-90, 1>> >>
        ELSE [i \in 1..nlat |-> <<(-90) * (nlat - 1) + 180 * (i - 1), nlat - 1>>]

\* gcm_vars with the albedo and emissivity entries in each other's place
gcm_vars_swapped(self) ==
    (IF self.wind # None THEN <<"W","i","n","d","s">> ELSE <<>>)
    \o (IF self.tsurf # None THEN <<self.tsurf.name>> ELSE <<>>)
    \o <<self.psurf.name>>
    \o (IF self.emissivity # None THEN <<self.emissivity.name>> ELSE <<>>)
    \o (IF self.albedo # None THEN <<self.albedo.name>> ELSE <<>>)
    \o (IF self.temperature # None THEN <<self.temperature.name>> ELSE <<>>)
    \o <<self.pressure.name>>
    \o (IF self.molecules # None
        THEN [i \in 1..Len(self.molecules.molecules) |-> self.molecules.molecules[i].name]
        ELSE <<>>)
    \o (IF self.aerosols # None
        THEN [i \in 1..Len(self.aerosols.aerosols) |-> self.aerosols.aerosols[i].name]
             \o [i \in 1..Len(self.aerosols.sizes) |-> self.aerosols.sizes[i].name]
        ELSE <<>>)

\* the variable names listed after the grid coordinates
gcm_vars(self) ==
    (IF self.wind # None THEN <<<<"W","i","n","d","s">>>> ELSE <<>>)
    \o (IF self.tsurf # None THEN <<self.tsurf.name>> ELSE <<>>)
    \o <<self.psurf.name>>
    \o (IF self.albedo # None THEN <<self.albedo.name>> ELSE <<>>)
    \o (IF self.emissivity # None THEN <<self.emissivity.name>> ELSE <<>>)
    \o (IF self.temperature # None THEN <<self.temperature.name>> ELSE <<>>)
    \o <<self.pressure.name>>
    \o (IF self.molecules # None
        THEN [i \in 1..Len(self.molecules.molecules) |-> self.molecules.molecules[i].name]
        ELSE <<>>)
    \o (IF self.aerosols # None
        THEN [i \in 1..Len(self.aerosols.aerosols) |-> self.aerosols.aerosols[i].name]
             \o [i \in 1..Len(self.aerosols.sizes) |-> self.aerosols.sizes[i].name]
        ELSE <<>>)

\* the grid descriptor written in the order of shape: layers first
gcm_coords_layers_first(self) ==
    LET nlayer == self.pressure.shape[1]
        nlon == self.pressure.shape[2]
        nlat == self.pressure.shape[3]
    IN  IntToStr(nlayer) \o <<",">> \o IntToStr(nlon) \o <<",">> \o IntToStr(nlat)
        \o <<",","-","1","8","0",".","0",",","-","9","0",".","0",",">> \o Fixed2(<<360, nlon>>) \o <<",">> \o Fixed2(<<180, nlat>>)

gcm_coords(self) ==
    LET nlayer == shape(self)[1]
        nlon == shape(self)[2]
        nlat == shape(self)[3]
    IN  IntToStr(nlon) \o <<",">> \o IntToStr(nlat) \o <<",">> \o IntToStr(nlayer)
        \o <<",","-","1","8","0",".","0",",","-","9","0",".","0",",">> \o Fixed2(dlon(self)) \o <<",">> \o Fixed2(dlat(self))

gcm_properties(self) == gcm_coords(self) \o <<",">> \o Join(<<",">>, gcm_vars(self))

\* the Fields whose values flat concatenates, in order: through Winds.flat the two
\* wind Fields, through Molecules.flat and Aerosols.flat the Fields of each collection
flat_fields(self) ==
    (IF self.wind = None THEN <<>> ELSE <<self.wind.wind_u, self.wind.wind_v>>)
    \o (IF self.tsurf = None THEN <<>> ELSE <<self.tsurf>>)
    \o <<self.psurf>>
    \o (IF self.albedo = None THEN <<>> ELSE <<self.albedo>>)
    \o (IF self.emissivity = None THEN <<>> ELSE <<self.emissivity>>)
    \o (IF self.temperature = None THEN <<>> ELSE <<self.temperature>>)
    \o <<self.pressure>>
    \o (IF self.molecules = None THEN <<>> ELSE self.molecules.molecules)
    \o (IF self.aerosols = None THEN <<>> ELSE self.aerosols.aerosols \o self.aerosols.sizes)

\* flat_segments with pressure and psurf in each other's place
flat_segments_pressure_first(self) ==
    << IF self.wind = None THEN Ok(<<>>) ELSE Winds_flat(self.wind),
       IF self.tsurf = None THEN Ok(<<>>) ELSE Ok(Field_flat(self.tsurf)),
       Ok(Field_flat(self.pressure)),
       IF self.albedo = None THEN Ok(<<>>) ELSE Ok(Field_flat(self.albedo)),
       IF self.emissivity = None THEN Ok(<<>>) ELSE Ok(Field_flat(self.emissivity)),
       IF self.temperature = None THEN Ok(<<>>) ELSE Ok(Field_flat(self.temperature)),
       Ok(Field_flat(self.psurf)),
       IF self.molecules = None THEN Ok(<<>>) ELSE Molecules_flat(self.molecules),
       IF self.aerosols = None THEN Ok(<<>>) ELSE Aerosols_flat(self.aerosols) >>

\* the nine segments handed to np.concatenate, evaluated in order
flat_segments(self) ==
    << IF self.wind = None THEN Ok(<<>>) ELSE Winds_flat(self.wind),
       IF self.tsurf = None THEN Ok(<<>>) ELSE Ok(Field_flat(self.tsurf)),
       Ok(Field_flat(self.psurf)),
       IF self.albedo = None THEN Ok(<<>>) ELSE Ok(Field_flat(self.albedo)),
       IF self.emissivity = None THEN Ok(<<>>) ELSE Ok(Field_flat(self.emissivity)),
       IF self.temperature = None THEN Ok(<<>>) ELSE Ok(Field_flat(self.temperature)),
       Ok(Field_flat(self.pressure)),
       IF self.molecules = None THEN Ok(<<>>) ELSE Molecules_flat(self.molecules),
       IF self.aerosols = None THEN Ok(<<>>) ELSE Aerosols_flat(self.aerosols) >>

flat(self) ==
    LET segs == flat_segments(self)
        bad == {i \in 1..Len(segs) : segs[i].err # ""}
    IN  IF bad # {}
        THEN Raise(segs[CHOOSE i \in bad : \A j \in bad : i <= j].err)
        ELSE np_concatenate([i \in 1..Len(segs) |-> segs[i].val])

gas_type(gas) ==
    LET t == Lookup(mtype, gas)
    IN  IF t.int THEN <<"H","I","T","[">> \o IntToStr(t.v) \o <<"]">> ELSE t.v

psg_params(self) ==
    IF self.molecules = None THEN Raise("AttributeError")
    ELSE
    LET nlayers == shape(self)[1]
        gases == [i \in 1..Len(self.molecules.molecules) |-> self.molecules.molecules[i].name]
        aerosols == IF self.aerosols # None
                    THEN [i \in 1..Len(self.aerosols.aerosols) |-> self.aerosols.aerosols[i].name]
                    ELSE <<>>
    IN  IF \E i \in 1..Len(gases) : ~HasKey(mtype, gases[i]) THEN Raise("KeyError")
        ELSE IF \E i \in 1..Len(aerosols) : ~HasKey(atype, aerosols[i]) THEN Raise("KeyError")
        ELSE
        LET gas_types == [i \in 1..Len(gases) |-> gas_type(gases[i])]
            aerosol_types == [i \in 1..Len(aerosols) |-> Lookup(atype, aerosols[i])]
            gcm_params == gcm_properties(self)
            params ==
              << <<<<"A","T","M","O","S","P","H","E","R","E","-","D","E","S","C","R","I","P","T","I","O","N">>, <<"V","a","r","i","a","b","l","e"," ","S","t","a","r"," ","P","h","a","s","e"," ","C","u","r","v","E"," ","(","V","S","P","E","C",")"," ","d","e","f","a","u","l","t"," ","G","C","M">>>>,
                 <<<<"A","T","M","O","S","P","H","E","R","E","-","S","T","R","U","C","T","U","R","E">>, <<"E","q","u","i","l","i","b","r","i","u","m">>>>,
                 <<<<"A","T","M","O","S","P","H","E","R","E","-","L","A","Y","E","R","S">>, IntToStr(nlayers)>>,
                 <<<<"A","T","M","O","S","P","H","E","R","E","-","N","G","A","S">>, IntToStr(Len(gases))>>,
                 <<<<"A","T","M","O","S","P","H","E","R","E","-","G","A","S">>, Join(<<",">>, gases)>>,
                 <<<<"A","T","M","O","S","P","H","E","R","E","-","T","Y","P","E">>, Join(<<",">>, gas_types)>>,
                 <<<<"A","T","M","O","S","P","H","E","R","E","-","A","B","U","N">>, Join(<<",">>, Repeat(<<"1">>, Len(gases)))>>,
                 <<<<"A","T","M","O","S","P","H","E","R","E","-","U","N","I","T">>, Join(<<",">>, Repeat(<<"s","c","l">>, Len(gases)))>>,
                 <<<<"A","T","M","O","S","P","H","E","R","E","-","G","C","M","-","P","A","R","A","M","E","T","E","R","S">>, gcm_params>> >>
            update ==
              << <<<<"A","T","M","O","S","P","H","E","R","E","-","N","A","E","R","O">>, IntToStr(Len(aerosols))>>,
                 <<<<"A","T","M","O","S","P","H","E","R","E","-","A","E","R","O","S">>, Join(<<",">>, aerosols)>>,
                 <<<<"A","T","M","O","S","P","H","E","R","E","-","A","T","Y","P","E">>, Join(<<",">>, aerosol_types)>>,
                 <<<<"A","T","M","O","S","P","H","E","R","E","-","A","A","B","U","N">>, Join(<<",">>, Repeat(<<"1">>, Len(aerosols)))>>,
                 <<<<"A","T","M","O","S","P","H","E","R","E","-","A","U","N","I","T">>, Join(<<",">>, Repeat(<<"s","c","l">>, Len(aerosols)))>>,
                 <<<<"A","T","M","O","S","P","H","E","R","E","-","A","S","I","Z","E">>, Join(<<",">>, Repeat(<<"1">>, Len(aerosols)))>>,
                 <<<<"A","T","M","O","S","P","H","E","R","E","-","A","S","U","N","I">>, Join(<<",">>, Repeat(<<"s","c","l">>, Len(aerosols)))>> >>
        IN  Ok(IF Len(aerosols) > 0 THEN params \o update ELSE params)

open_delim == Utf8(<<"\n","<","B","I","N","A","R","Y",">">>)

close_delim == Utf8(<<"<","/","B","I","N","A","R","Y",">">>)

\* the newline-joined '<FIELD>value' lines of a parameter table
config_text(params) ==
    Join(<<"\n">>, [i \in 1..Len(params) |-> <<"<">> \o params[i][1] \o <<">">> \o params[i][2]])

\* content with the opening delimiter written without its leading newline
content_no_newline(self) ==
    LET p == psg_params(self)
    IN  IF p.err # "" THEN Raise(p.err)
        ELSE LET f == flat(self)
             IN  IF f.err # "" THEN Raise(f.err)
                 ELSE Ok(Utf8(config_text(p.val)) \o Utf8(<<"<","B","I","N","A","R","Y",">">>) \o ToBytes(f.val)
                         \o close_delim)

content(self) ==
    LET p == psg_params(self)
    IN  IF p.err # "" THEN Raise(p.err)
        ELSE LET f == flat(self)
             IN  IF f.err # "" THEN Raise(f.err)
                 ELSE Ok(Utf8(config_text(p.val)) \o open_delim \o ToBytes(f.val) \o close_delim)

(***************************************************************************)
(* VSPEC.gcm.structure factories used by Planet.from_dict.  Each returns a *)
(* Field of the requested shape under the class's own name; the physics    *)
(* that fills the grid is abstracted to whole numbers.                     *)
(***************************************************************************)
\* the irradiation balance is abstracted to the star's temperature
SurfaceTemperature_from_map(shape2d, epsilon, star_teff, albedo, r_star, r_orbit) ==
    Field_constant(<<"T","s","u","r","f">>, star_teff, shape2d)

\* layer k (0 at the surface) of the profile holds high - k
Pressure_from_limits(high, low, shape3d) ==
    Field(<<"P","r","e","s","s","u","r","e">>, shape3d,
          [i \in 1..Prod(shape3d) |-> high - ((i - 1) \div (shape3d[2] * shape3d[3]))])

\* the base layer of the 3-D profile
SurfacePressure_from_pressure(pressure) ==
    Field(<<"P","s","u","r","f">>, Tail(pressure.shape),
          SubSeq(pressure.dat, 1, pressure.shape[2] * pressure.shape[3]))

Wind_contant(name, value, shape3d) == Field_constant(name, value, shape3d)

Albedo_constant(val, shape2d) == Field_constant(<<"A","l","b","e","d","o">>, val, shape2d)

Emissivity_constant(val, shape2d) == Field_constant(<<"E","m","i","s","s","i","v","i","t","y">>, val, shape2d)

Temperature_from_adiabat(gamma, tsurf, pressure) ==
    Field(<<"T","e","m","p","e","r","a","t","u","r","e">>, pressure.shape,
          [i \in 1..Prod(pressure.shape) |->
              tsurf.dat[((i - 1) % (pressure.shape[2] * pressure.shape[3])) + 1]])

\* Planet.__init__: store the members, then validate
Planet___init__(args) ==
    LET e == validate(args)
    IN  IF e = "" THEN Ok(args) ELSE Raise(e)

\* the keys from_dict reads in d['planet']
PlanetKeys ==
    {"epsilon", "teff_star", "albedo", "r_star", "r_orbit", "pressure", "wind",
     "emissivity", "gamma"}

from_dict(d) ==
    IF ~(PlanetKeys \subseteq DOMAIN d.planet) THEN Raise("KeyError")
    ELSE
    LET nlayer == d.shape.nlayer
        nlon == d.shape.nlon
        nlat == d.shape.nlat
        shape2d == <<nlon, nlat>>
        shape3d == <<nlayer, nlon, nlat>>
        tsurf == SurfaceTemperature_from_map(shape2d, d.planet.epsilon, d.planet.teff_star,
                                             d.planet.albedo, d.planet.r_star, d.planet.r_orbit)
        pressure == Pressure_from_limits(d.planet.pressure.psurf, d.planet.pressure.ptop, shape3d)
        wind == Winds(Wind_contant(<<"U">>, d.planet.wind.U, shape3d),
                      Wind_contant(<<"V">>, d.planet.wind.V, shape3d))
        psurf == SurfacePressure_from_pressure(pressure)
        albedo == Albedo_constant(d.planet.albedo, shape2d)
        emissivity == Emissivity_constant(d.planet.emissivity, shape2d)
        temperature == Temperature_from_adiabat(d.planet.gamma, tsurf, pressure)
        molecules == Molecules_from_dict(d.molecules, shape3d)
        aerosols == IF d.aerosols = None THEN None ELSE Aerosols_from_dict(d.aerosols, shape3d)
    IN  Planet___init__(Planet(wind, tsurf, psurf, albedo, emissivity, temperature,
                               pressure, molecules, aerosols))

(***************************************************************************)
(* The calls a client makes: the arguments it may pass.                    *)
(***************************************************************************)
Shapes == {<<l, n, m>> : l \in 1..MaxLayer, n \in 1..MaxLon, m \in 1..MaxLat}

BaseShape == <<MaxLayer, MaxLon, MaxLat>>

\* a 3-D shape and a 2-D shape that disagree with the grid sh
Bad3(sh) == <<sh[1], sh[2], sh[3] + 1>>

Bad2(sh) == <<sh[2] + 1, sh[3]>>

Opt == {"wind", "tsurf", "albedo", "emissivity", "temperature"}

BadKinds == {"none", "wind_u", "wind_v", "tsurf", "psurf", "albedo", "emissivity",
             "temperature", "molecule", "aerosol", "size"}

\* gas and aerosol names a client may use; the last of each is in no type table
GasPool == <<<<"H","2","O">>, <<"O">>, <<"X","e">>>>

AeroPool == <<<<"W","a","t","e","r">>, <<"W","a","t","e","r","I","c","e">>, <<"D","u","s","t">>>>

\* the field values a client supplies, by role
Val == [U |-> 1, V |-> 2, tsurf |-> 3, psurf |-> 4, albedo |-> 5, emissivity |-> 6,
        temperature |-> 7, pressure |-> 8, ptop |-> 1, gamma |-> 1, gas |-> 10,
        abn |-> 20, size |-> 30, epsilon |-> 1, r_star |-> 1, r_orbit |-> 9]

\* the orderings of up to n distinct entries of a pool of k names
Picks(k, n) ==
    {s \in UNION {[1..j -> 1..k] : j \in 0..n} :
        \A i, j \in 1..Len(s) : i # j => s[i] # s[j]}

GasDict(s) == [items |-> [i \in 1..Len(s) |-> <<GasPool[s[i]], Val.gas + s[i]>>]]

AeroDict(s) ==
    [items |-> [i \in 1..Len(s) |->
                  <<AeroPool[s[i]], [abn |-> Val.abn + s[i], size |-> Val.size + s[i]]>>]]

Reverse(s) == [i \in 1..Len(s) |-> s[Len(s) + 1 - i]]

\* the last Field of a list re-made on another grid
BadLast(fs, sh) ==
    IF fs = <<>> THEN fs
    ELSE [fs EXCEPT ![Len(fs)] = Field_constant(fs[Len(fs)].name, fs[Len(fs)].dat[1], sh)]

\* how a client pairs the size Fields with the abundance Fields
SizeVariants == {"matched", "short", "reversed"}

ClientAerosols(s, variant, bad, sh) ==
    LET built == Aerosols__from_dict_lists(AeroDict(s), sh)
        abn == IF bad = "aerosol" THEN BadLast(built.aersols, Bad3(sh)) ELSE built.aersols
        sz0 == IF variant = "short" /\ built.sizes # <<>>
               THEN SubSeq(built.sizes, 1, Len(built.sizes) - 1)
               ELSE IF variant = "reversed" THEN Reverse(built.sizes)
               ELSE built.sizes
        sz == IF bad = "size" THEN BadLast(sz0, Bad3(sh)) ELSE sz0
    IN  Aerosols(abn, sz)

ClientMolecules(s, bad, sh) ==
    LET built == Molecules_from_dict(GasDict(s), sh).molecules
    IN  Molecules(IF bad = "molecule" THEN BadLast(built, Bad3(sh)) ELSE built)

\* mol: None or [s |-> a pick of gases]; aer: None or [s |-> a pick, v |-> a variant]
ClientArgs(sh, present, hasPressure, hasPsurf, mol, aer, bad) ==
    LET s3(key) == IF bad = key THEN Bad3(sh) ELSE sh
        s2(key) == IF bad = key THEN Bad2(sh) ELSE Tail(sh)
    IN  Planet(
          IF "wind" \in present
          THEN Winds(Field_constant(<<"U">>, Val.U, s3("wind_u")),
                     Field_constant(<<"V">>, Val.V, s3("wind_v")))
          ELSE None,
          IF "tsurf" \in present THEN Field_constant(<<"T","s","u","r","f">>, Val.tsurf, s2("tsurf")) ELSE None,
          IF hasPsurf THEN Field_constant(<<"P","s","u","r","f">>, Val.psurf, s2("psurf")) ELSE None,
          IF "albedo" \in present THEN Field_constant(<<"A","l","b","e","d","o">>, Val.albedo, s2("albedo")) ELSE None,
          IF "emissivity" \in present
          THEN Field_constant(<<"E","m","i","s","s","i","v","i","t","y">>, Val.emissivity, s2("emissivity")) ELSE None,
          IF "temperature" \in present
          THEN Field_constant(<<"T","e","m","p","e","r","a","t","u","r","e">>, Val.temperature, s3("temperature")) ELSE None,
          IF hasPressure THEN Field_constant(<<"P","r","e","s","s","u","r","e">>, Val.pressure, sh) ELSE None,
          IF mol = None THEN None ELSE ClientMolecules(mol.s, bad, sh),
          IF aer = None THEN None ELSE ClientAerosols(aer.s, aer.v, bad, sh))

MolChoices == {None} \cup {[s |-> s] : s \in Picks(Len(GasPool), MaxMol)}

AerChoices ==
    {None} \cup {[s |-> s, v |-> v] : s \in Picks(Len(AeroPool), MaxAero), v \in SizeVariants}

SimpleMol == {None, [s |-> <<1>>]}

SimpleAer == {None, [s |-> <<1>>, v |-> "matched"]}

\* every grid with every mix of optional members; every collection on the base
\* grid; every single defect (a missing required member, one Field off the grid)
ConstructorArgs ==
    {ClientArgs(sh, present, TRUE, TRUE, mol, aer, "none") :
        sh \in Shapes, present \in SUBSET Opt, mol \in SimpleMol, aer \in SimpleAer}
    \cup {ClientArgs(BaseShape, present, TRUE, TRUE, mol, aer, "none") :
        present \in {{}, Opt}, mol \in MolChoices, aer \in AerChoices}
    \cup {ClientArgs(BaseShape, present, hasPressure, hasPsurf,
                     [s |-> <<1>>], [s |-> <<1>>, v |-> "matched"], bad) :
        present \in SUBSET Opt, hasPressure \in BOOLEAN, hasPsurf \in BOOLEAN,
        bad \in BadKinds}

PlanetParams ==
    [epsilon |-> Val.epsilon, teff_star |-> Val.tsurf, albedo |-> Val.albedo,
     r_star |-> Val.r_star, r_orbit |-> Val.r_orbit, emissivity |-> Val.emissivity,
     gamma |-> Val.gamma, pressure |-> [psurf |-> Val.pressure, ptop |-> Val.ptop],
     wind |-> [U |-> Val.U, V |-> Val.V]]

\* the planet section with one key left out
PlanetParamsWithout(key) == [k \in (DOMAIN PlanetParams) \ {key} |-> PlanetParams[k]]

ConfigDict(sh, mol, aer, planet_params) ==
    [shape |-> [nlayer |-> sh[1], nlon |-> sh[2], nlat |-> sh[3]],
     planet |-> planet_params,
     molecules |-> GasDict(mol),
     aerosols |-> IF aer = None THEN None ELSE AeroDict(aer.s)]

\* the <<grid, gases, aerosols, planet section>> a configuration mapping is
\* written from; the last family leaves out one key that from_dict reads
FactoryInputs ==
    {<<sh, <<1>>, aer, PlanetParams>> : sh \in Shapes, aer \in {None, [s |-> <<1>>]}}
    \cup {<<BaseShape, mol, aer, PlanetParams>> :
            mol \in Picks(Len(GasPool), MaxMol),
            aer \in {None} \cup {[s |-> s] : s \in Picks(Len(AeroPool), MaxAero)}}
    \cup {<<BaseShape, <<1>>, None, PlanetParamsWithout(key)>> : key \in PlanetKeys}

(***************************************************************************)
(* The state machine: one Planet is built, by the constructor or by the    *)
(* factory, and then its accessors are read in any order.                  *)
(***************************************************************************)
Init ==
    /\ input = None
    /\ planet = None
    /\ op = "start"
    /\ ret = Ok(None)
    /\ frame = None

Construct ==
    /\ op = "start"
    /\ \E args \in ConstructorArgs :
          LET r == Planet___init__(args)
          IN  /\ input' = args
              /\ planet' = r.val
              /\ ret' = IF r.err = "" THEN Ok(None) ELSE r
    /\ op' = "__init__"
    /\ UNCHANGED frame

FromDict ==
    /\ op = "start"
    /\ \E p \in FactoryInputs :
          LET d == ConfigDict(p[1], p[2], p[3], p[4])
              r == from_dict(d)
          IN  /\ input' = d
              /\ planet' = r.val
              /\ ret' = IF r.err = "" THEN Ok(None) ELSE r
    /\ op' = "from_dict"
    /\ UNCHANGED frame

Get_shape ==
    /\ planet # None
    /\ op' = "shape"
    /\ ret' = Ok(shape(planet))
    /\ UNCHANGED <<input, planet, frame>>

Get_lons ==
    /\ planet # None
    /\ op' = "lons"
    /\ ret' = Ok(lons(planet))
    /\ UNCHANGED <<input, planet, frame>>

Get_dlon ==
    /\ planet # None
    /\ op' = "dlon"
    /\ ret' = Ok(dlon(planet))
    /\ UNCHANGED <<input, planet, frame>>

Get_dlat ==
    /\ planet # None
    /\ op' = "dlat"
    /\ ret' = Ok(dlat(planet))
    /\ UNCHANGED <<input, planet, frame>>

Get_lats ==
    /\ planet # None
    /\ op' = "lats"
    /\ ret' = Ok(lats(planet))
    /\ UNCHANGED <<input, planet, frame>>

Get_gcm_properties ==
    /\ planet # None
    /\ op' = "gcm_properties"
    /\ ret' = Ok(gcm_properties(planet))
    /\ UNCHANGED <<input, planet, frame>>

Get_flat ==
    /\ planet # None
    /\ op' = "flat"
    /\ ret' = flat(planet)
    /\ UNCHANGED <<input, planet, frame>>

\* psg_params storing its default for absent aerosols on the Planet
\* (self.aerosols = Aerosols((),()) where the code keeps a local list)
Get_psg_params_storing_default ==
    /\ planet # None
    /\ op' = "psg_params"
    /\ ret' = psg_params(planet)
    /\ planet' = IF planet.aerosols = None
                 THEN [planet EXCEPT !.aerosols = Aerosols(<<>>, <<>>)]
                 ELSE planet
    /\ UNCHANGED <<input, frame>>

Get_psg_params ==
    /\ planet # None
    /\ op' = "psg_params"
    /\ ret' = psg_params(planet)
    /\ UNCHANGED <<input, planet, frame>>

Get_content ==
    /\ planet # None
    /\ op' = "content"
    /\ ret' = content(planet)
    /\ UNCHANGED <<input, planet, frame>>

\* planet.aerosols.flat, read from a Planet that has aerosols
Get_aerosols_flat ==
    /\ planet # None
    /\ planet.aerosols # None
    /\ op' = "aerosols.flat"
    /\ ret' = Aerosols_flat(planet.aerosols)
    /\ UNCHANGED <<input, planet, frame>>

Next ==
    \/ Construct
    \/ FromDict
    \/ Get_shape
    \/ Get_lons
    \/ Get_dlon
    \/ Get_dlat
    \/ Get_lats
    \/ Get_gcm_properties
    \/ Get_flat
    \/ Get_psg_params
    \/ Get_content
    \/ Get_aerosols_flat

Spec == Init /\ [][Next]_vars

(***************************************************************************)
(* Reading the results back, as a consumer of the header does.             *)
(***************************************************************************)
\* the comma-separated entries of gcm_properties after the seven grid coordinates
VarNames(props) ==
    LET parts == Split(props, ",")
    IN  SubSeq(parts, 8, Len(parts))

FieldNames(fs) == [i \in 1..Len(fs) |-> fs[i].name]

FieldFlats(fs) == [i \in 1..Len(fs) |-> Field_flat(fs[i])]

\* a list of Field names with the two wind Fields written as the one entry 'Winds'
WindsAsOne(self, names) ==
    IF self.wind # None THEN <<<<"W","i","n","d","s">>>> \o SubSeq(names, 3, Len(names)) ELSE names

Accessors ==
    {"shape", "lons", "lats", "dlon", "dlat", "gcm_properties", "flat", "psg_params", "content"}

(***************************************************************************)
(* C1.  As claimed: for every Planet that was constructed, the variable    *)
(* names that follow the seven grid coordinates in gcm_properties have the *)
(* same length and order as the Fields concatenated into flat.             *)
(***************************************************************************)
C1_NamesOneToOneWithFields ==
    op = "gcm_properties" => VarNames(ret.val) = FieldNames(flat_fields(planet))

(***************************************************************************)
(* C1, amended.  The names in gcm_properties follow the order of the       *)
(* Fields that flat concatenates, with the two wind Fields standing        *)
(* behind the single entry 'Winds'; and whenever flat returns, it is those *)
(* Fields' values in that order.                                           *)
(***************************************************************************)
C1_NamesFollowFieldsWindsAsOne ==
    /\ op = "gcm_properties" =>
          VarNames(ret.val) = WindsAsOne(planet, FieldNames(flat_fields(planet)))
    /\ (op = "flat" /\ ret.err = "") =>
          ret.val = Concat(FieldFlats(flat_fields(planet)))

C1_Witness ==
    /\ op = "gcm_properties"
    /\ planet.wind # None
    /\ planet.albedo # None
    /\ planet.emissivity # None
    /\ planet.molecules # None
    /\ planet.aerosols # None
    /\ Len(VarNames(ret.val)) = Len(flat_fields(planet)) - 1

(***************************************************************************)
(* C2.  As claimed: constructing a Planet with pressure absent or with     *)
(* psurf absent fails with the one error kind the code raises for a        *)
(* missing required member (TypeError, 'pressure must be provided!'), and  *)
(* no Planet results.                                                      *)
(***************************************************************************)
C2_MissingRequiredOneKind ==
    (op = "__init__" /\ (input.pressure = None \/ input.psurf = None)) =>
        (planet = None /\ ret.err = "TypeError")

(***************************************************************************)
(* C3.  A Planet that exists has every member on the grid of pressure:     *)
(* psurf and each present 2-D member on (n_lon, n_lat), each present 3-D   *)
(* member on (n_layer, n_lon, n_lat); and a construction that is given     *)
(* both required members and any member off the grid fails with            *)
(* AssertionError (the shape-mismatch kind) and yields no Planet.          *)
(***************************************************************************)
OnGrid(p) ==
    LET n_layer == p.pressure.shape[1]
        n_lon == p.pressure.shape[2]
        n_lat == p.pressure.shape[3]
        is2d(f) == f.shape = <<n_lon, n_lat>>
        is3d(f) == f.shape = <<n_layer, n_lon, n_lat>>
    IN  /\ Len(p.pressure.shape) = 3
        /\ is2d(p.psurf)
        /\ p.tsurf # None => is2d(p.tsurf)
        /\ p.albedo # None => is2d(p.albedo)
        /\ p.emissivity # None => is2d(p.emissivity)
        /\ p.wind # None => (is3d(p.wind.wind_u) /\ is3d(p.wind.wind_v))
        /\ p.temperature # None => is3d(p.temperature)
        /\ p.molecules # None =>
              \A i \in 1..Len(p.molecules.molecules) : is3d(p.molecules.molecules[i])
        /\ p.aerosols # None =>
              /\ \A i \in 1..Len(p.aerosols.aerosols) : is3d(p.aerosols.aerosols[i])
              /\ \A i \in 1..Len(p.aerosols.sizes) : is3d(p.aerosols.sizes[i])

C3_ShapesFailFast ==
    /\ planet # None => OnGrid(planet)
    /\ (op = "__init__" /\ input.pressure # None /\ input.psurf # None /\ ~OnGrid(input)) =>
          (planet = None /\ ret.err = "AssertionError")

C3_Witness ==
    /\ op = "__init__"
    /\ input.pressure # None
    /\ input.psurf # None
    /\ input.aerosols # None
    /\ \E i \in 1..Len(input.aerosols.sizes) :
          input.aerosols.sizes[i].shape # input.pressure.shape
    /\ planet = None
    /\ ret.err = "AssertionError"

(***************************************************************************)
(* C4.  As claimed: on a Planet that was constructed, whose gas and        *)
(* aerosol names are all in the type tables, every accessor returns a      *)
(* value; in particular with molecules or aerosols absent.                 *)
(***************************************************************************)
NamesKnown(p) ==
    /\ p.molecules # None =>
          \A i \in 1..Len(p.molecules.molecules) : HasKey(mtype, p.molecules.molecules[i].name)
    /\ p.aerosols # None =>
          \A i \in 1..Len(p.aerosols.aerosols) : HasKey(atype, p.aerosols.aerosols[i].name)

C4_AccessorsNeverFail ==
    (planet # None /\ op \in Accessors /\ NamesKnown(planet)) => ret.err = ""

(***************************************************************************)
(* C5.  Whenever content returns, the bytes between the opening and the    *)
(* closing delimiter number 4 times the elements of flat:                  *)
(* len(flat) * 4 = len(content) - len(header_bytes) - len(open_delim)      *)
(* - len(close_delim), header_bytes being the UTF-8 encoding of the        *)
(* newline-joined '<FIELD>value' lines of psg_params; and the header and   *)
(* the two delimiters sit where that count assumes.                        *)
(***************************************************************************)
C5_PayloadIsFourBytesPerElement ==
    (op = "content" /\ ret.err = "") =>
        LET header_bytes == Utf8(config_text(psg_params(planet).val))
            h == Len(header_bytes)
            n == Len(ret.val)
        IN  /\ Len(flat(planet).val) * 4 = n - h - Len(open_delim) - Len(close_delim)
            /\ SubSeq(ret.val, 1, h) = header_bytes
            /\ SubSeq(ret.val, h + 1, h + Len(open_delim)) = Utf8(<<"\n","<","B","I","N","A","R","Y",">">>)
            /\ SubSeq(ret.val, n - Len(close_delim) + 1, n) = Utf8(<<"<","/","B","I","N","A","R","Y",">">>)

C5_Witness ==
    /\ op = "content"
    /\ ret.err = ""
    /\ planet.wind # None
    /\ planet.aerosols # None
    /\ Len(flat(planet).val) > 0

(***************************************************************************)
(* C6.  As claimed: Planet.from_dict given a non-empty 'aerosols' section  *)
(* yields a Planet whose aerosols member is present, with one abundance    *)
(* Field and one size Field per key in mapping order.                      *)
(***************************************************************************)
C6_FactoryKeepsAerosols ==
    (op = "from_dict" /\ input.aerosols # None /\ input.aerosols.items # <<>>) =>
        /\ planet # None
        /\ planet.aerosols # None
        /\ FieldNames(planet.aerosols.aerosols) = Keys(input.aerosols.items)
        /\ Len(planet.aerosols.sizes) = Len(input.aerosols.items)

(***************************************************************************)
(* C7.  The scenario: grid (n_layer=2, n_lon=2, n_lat=2), the one gas H2O  *)
(* of constant abundance, and wind, tsurf, albedo, emissivity, temperature *)
(* and aerosols absent.                                                    *)
(***************************************************************************)
Scenario7 == ClientArgs(<<2, 2, 2>>, {}, TRUE, TRUE, [s |-> <<1>>], None, "none")

Param(params, key) == Lookup(params, key)

(***************************************************************************)
(* C7.  As claimed: in the scenario flat has exactly 28 elements (psurf,   *)
(* then pressure, then the H2O Field), ATMOSPHERE-NGAS is '1' and          *)
(* ATMOSPHERE-GAS is 'H2O'.                                                *)
(***************************************************************************)
C7_ScenarioFlatHas28 ==
    planet = Scenario7 =>
        /\ op = "flat" =>
              /\ ret.err = ""
              /\ Len(ret.val) = 28
              /\ ret.val = Field_flat(planet.psurf) \o Field_flat(planet.pressure)
                             \o Field_flat(planet.molecules.molecules[1])
        /\ op = "psg_params" =>
              /\ ret.err = ""
              /\ Param(ret.val, <<"A","T","M","O","S","P","H","E","R","E","-","N","G","A","S">>) = <<"1">>
              /\ Param(ret.val, <<"A","T","M","O","S","P","H","E","R","E","-","G","A","S">>) = <<"H","2","O">>

(***************************************************************************)
(* C7, amended.  In the scenario flat has exactly 20 elements: the 4 of    *)
(* psurf, then the 8 of pressure, then the 8 of the H2O Field;             *)
(* ATMOSPHERE-NGAS is '1' and ATMOSPHERE-GAS is 'H2O'.                     *)
(***************************************************************************)
C7_ScenarioFlatHas20 ==
    planet = Scenario7 =>
        /\ op = "flat" =>
              /\ ret.err = ""
              /\ Len(ret.val) = 20
              /\ Len(Field_flat(planet.psurf)) = 4
              /\ Len(Field_flat(planet.pressure)) = 8
              /\ Len(Field_flat(planet.molecules.molecules[1])) = 8
              /\ ret.val = Field_flat(planet.psurf) \o Field_flat(planet.pressure)
                             \o Field_flat(planet.molecules.molecules[1])
        /\ op = "psg_params" =>
              /\ ret.err = ""
              /\ Param(ret.val, <<"A","T","M","O","S","P","H","E","R","E","-","N","G","A","S">>) = <<"1">>
              /\ Param(ret.val, <<"A","T","M","O","S","P","H","E","R","E","-","G","A","S">>) = <<"H","2","O">>

C7_Witness ==
    /\ planet = Scenario7
    /\ op = "flat"
    /\ ret.err = ""
    /\ Len(ret.val) = 20

(***************************************************************************)
(* C8.  Angles are exact fractions <<num, den>> of a degree.               *)
(***************************************************************************)
FracEq(a, b) == a[1] * b[2] = b[1] * a[2]

\* a - b
FracSub(a, b) == <<a[1] * b[2] - b[1] * a[2], a[2] * b[2]>>

\* k * a
FracTimes(k, a) == <<k * a[1], a[2]>>

Whole(n) == <<n, 1>>

(***************************************************************************)
(* C8.  As claimed: on every grid with n_lon >= 1 and n_lat >= 2,          *)
(* dlon * n_lon = 360 and dlat * (n_lat - 1) = 180, dlon and dlat being    *)
(* the values Planet.dlon and Planet.dlat return.                          *)
(***************************************************************************)
C8_DlatSpansClosedAxis ==
    (planet # None /\ shape(planet)[3] >= 2) =>
        /\ op = "dlon" => FracEq(FracTimes(shape(planet)[2], ret.val), Whole(360))
        /\ op = "dlat" => FracEq(FracTimes(shape(planet)[3] - 1, ret.val), Whole(180))

(***************************************************************************)
(* C8, amended.  On every grid dlon * n_lon = 360 and dlat * n_lat = 180;  *)
(* lats is the closed axis of n_lat evenly spaced points from -90 to 90,   *)
(* whose own step (for n_lat >= 2) times n_lat - 1 is 180.                 *)
(***************************************************************************)
C8_StepsTimesCountSpanTheGlobe ==
    planet # None =>
        LET n_lon == shape(planet)[2]
            n_lat == shape(planet)[3]
        IN  /\ op = "dlon" => FracEq(FracTimes(n_lon, ret.val), Whole(360))
            /\ op = "dlat" => FracEq(FracTimes(n_lat, ret.val), Whole(180))
            /\ op = "lats" =>
                  /\ Len(ret.val) = n_lat
                  /\ FracEq(ret.val[1], Whole(-90))
                  /\ n_lat >= 2 =>
                        /\ FracEq(ret.val[n_lat], Whole(90))
                        /\ \A i \in 1..(n_lat - 1) :
                              FracEq(FracTimes(n_lat - 1, FracSub(ret.val[i + 1], ret.val[i])),
                                     Whole(180))

C8_Witness ==
    /\ planet # None
    /\ op = "dlat"
    /\ shape(planet)[3] >= 2
    /\ shape(planet)[2] # shape(planet)[3]
    /\ FracEq(FracTimes(shape(planet)[3], ret.val), Whole(180))

(***************************************************************************)
(* C9.  As claimed: in every constructed Planet that has aerosols, the     *)
(* abundance and the size sequences have equal length, and sizes[i] is     *)
(* named after aerosols[i] with '_size' appended, however the Planet was   *)
(* built.                                                                  *)
(***************************************************************************)
C9_SizesPairWithAerosols ==
    (planet # None /\ planet.aerosols # None) =>
        /\ Len(planet.aerosols.sizes) = Len(planet.aerosols.aerosols)
        /\ \A i \in 1..Len(planet.aerosols.aerosols) :
              planet.aerosols.sizes[i].name = planet.aerosols.aerosols[i].name \o <<"_","s","i","z","e">>

(***************************************************************************)
(* C10.  Whenever Aerosols.flat returns, it is the abundance Fields'       *)
(* values in species order followed by the size Fields' values in species  *)
(* order (32 elements for two species on a 2x2x2 grid); and the k-th name  *)
(* in ATMOSPHERE-AEROS is the name of the Field whose values are the k-th  *)
(* block of that buffer.                                                   *)
(***************************************************************************)
\* the k-th block of n elements of a buffer
Block(buf, k, n) == SubSeq(buf, (k - 1) * n + 1, k * n)

C10_AerosolsFlatOrder ==
    /\ (op = "aerosols.flat" /\ ret.err = "") =>
          /\ ret.val = Concat(FieldFlats(planet.aerosols.aerosols))
                         \o Concat(FieldFlats(planet.aerosols.sizes))
          /\ (/\ shape(planet) = <<2, 2, 2>>
              /\ Len(planet.aerosols.aerosols) = 2
              /\ Len(planet.aerosols.sizes) = 2) => Len(ret.val) = 32
    /\ (op = "psg_params" /\ ret.err = "" /\ planet.aerosols # None
          /\ planet.aerosols.aerosols # <<>>) =>
          LET names == Split(Param(ret.val, <<"A","T","M","O","S","P","H","E","R","E","-","A","E","R","O","S">>), ",")
              buf == Aerosols_flat(planet.aerosols).val
              n == Prod(shape(planet))
          IN  /\ Len(names) = Len(planet.aerosols.aerosols)
              /\ \A k \in 1..Len(names) :
                    \E i \in 1..Len(planet.aerosols.aerosols) :
                        /\ planet.aerosols.aerosols[i].name = names[k]
                        /\ Block(buf, k, n) = Field_flat(planet.aerosols.aerosols[i])

C10_Witness ==
    /\ op = "aerosols.flat"
    /\ ret.err = ""
    /\ shape(planet) = <<2, 2, 2>>
    /\ Len(planet.aerosols.aerosols) = 2
    /\ Len(planet.aerosols.sizes) = 2
    /\ Len(ret.val) = 32

(***************************************************************************)
(* C11.  Round trip of the grid descriptor: the first three comma-         *)
(* separated entries of gcm_properties, read as decimal (n_lon, n_lat,     *)
(* n_layer) and reordered to (n_layer, n_lon, n_lat), are exactly          *)
(* Planet.shape, which is the shape of the pressure Field the constructor  *)
(* was given (the grid of the mapping, when built by from_dict).           *)
(***************************************************************************)
IsDecimal(s) == s # <<>> /\ \A i \in 1..Len(s) : InSeq(Digits, s[i])

\* the header's first three entries, reordered to (n_layer, n_lon, n_lat)
ParsedShape(props) ==
    LET parts == Split(props, ",")
    IN  <<StrToNat(parts[3]), StrToNat(parts[1]), StrToNat(parts[2])>>

\* the grid the Planet was asked for, by either way of building it
RequestedShape ==
    IF "shape" \in DOMAIN input
    THEN <<input.shape.nlayer, input.shape.nlon, input.shape.nlat>>
    ELSE input.pressure.shape

C11_GridDescriptorRoundTrip ==
    (op = "gcm_properties") =>
        LET parts == Split(ret.val, ",")
        IN  /\ ret.err = ""
            /\ Len(parts) >= 7
            /\ \A i \in 1..3 : IsDecimal(parts[i])
            /\ ParsedShape(ret.val) = shape(planet)
            /\ shape(planet) = RequestedShape

C11_Witness ==
    /\ op = "gcm_properties"
    /\ "shape" \in DOMAIN input
    /\ ParsedShape(ret.val) = <<1, MaxLon, MaxLat>>
    /\ MaxLon > 1

(***************************************************************************)
(* C12.  As claimed: composing psg_params or content for a Planet that     *)
(* holds a gas name absent from the gas type table, or an aerosol name     *)
(* absent from the aerosol type table, fails with the error of the failed  *)
(* table lookup (KeyError); no parameter table and no bytes are returned.  *)
(***************************************************************************)
UnknownSpecies(p) == ~NamesKnown(p)

C12_UnknownSpeciesIsKeyError ==
    (planet # None /\ op \in {"psg_params", "content"} /\ UnknownSpecies(planet)) =>
        (ret.err = "KeyError" /\ ret.val = None)

(***************************************************************************)
(* C13.  content is a deterministic function of Planet state: no accessor  *)
(* (shape, the axes, gcm_properties, flat, psg_params, content, in any     *)
(* order, any number of times) changes a member of the Planet; what        *)
(* content returns is fixed by the member values alone; and an evaluation  *)
(* of content that follows another returns the same byte sequence.         *)
(***************************************************************************)
C13_ContentIsDeterministic ==
    [][planet # None =>
          /\ planet' = planet
          /\ (op' = "content" => ret' = content(planet))
          /\ ((op = "content" /\ op' = "content") => ret' = ret)]_vars

C13_Witness ==
    /\ op = "content"
    /\ ret.err = ""
    /\ "pressure" \in DOMAIN input
    /\ planet = input
    /\ planet.temperature # None
    /\ planet.molecules # None
    /\ ret.val = content(input).val

(***************************************************************************)
(* C14.  Whenever psg_params returns (the Planet has molecules, and every  *)
(* name is in its type table): ATMOSPHERE-NGAS is the number of molecules; *)
(* ATMOSPHERE-GAS, -TYPE, -ABUN and -UNIT each have that many comma-       *)
(* separated entries, in the order of the molecule collection, which is    *)
(* the order of the molecule names in gcm_properties; and the seven        *)
(* ATMOSPHERE-NAERO/AEROS/ATYPE/AABUN/AUNIT/ASIZE/ASUNI keys are present   *)
(* exactly when the Planet has at least one aerosol, each list then having *)
(* NAERO entries in the order of the aerosol collection.                   *)
(***************************************************************************)
\* the entries of a comma-joined list; the empty text is the empty list
Entries(s) == IF s = <<>> THEN <<>> ELSE Split(s, ",")

AerosolKeys ==
    << <<"A","T","M","O","S","P","H","E","R","E","-","N","A","E","R","O">>, <<"A","T","M","O","S","P","H","E","R","E","-","A","E","R","O","S">>, <<"A","T","M","O","S","P","H","E","R","E","-","A","T","Y","P","E">>, <<"A","T","M","O","S","P","H","E","R","E","-","A","A","B","U","N">>,
       <<"A","T","M","O","S","P","H","E","R","E","-","A","U","N","I","T">>, <<"A","T","M","O","S","P","H","E","R","E","-","A","S","I","Z","E">>, <<"A","T","M","O","S","P","H","E","R","E","-","A","S","U","N","I">> >>

AerosolNames(p) == IF p.aerosols = None THEN <<>> ELSE FieldNames(p.aerosols.aerosols)

SizeCount(p) == IF p.aerosols = None THEN 0 ELSE Len(p.aerosols.sizes)

C14_ListsFollowCollections ==
    (op = "psg_params" /\ ret.err = "") =>
        LET t == ret.val
            gases == FieldNames(planet.molecules.molecules)
            n == Len(gases)
            aeros == AerosolNames(planet)
            k == Len(aeros)
            names == VarNames(Param(t, <<"A","T","M","O","S","P","H","E","R","E","-","G","C","M","-","P","A","R","A","M","E","T","E","R","S">>))
            first == Len(names) - SizeCount(planet) - k - n
        IN  /\ IsDecimal(Param(t, <<"A","T","M","O","S","P","H","E","R","E","-","N","G","A","S">>))
            /\ StrToNat(Param(t, <<"A","T","M","O","S","P","H","E","R","E","-","N","G","A","S">>)) = n
            /\ Entries(Param(t, <<"A","T","M","O","S","P","H","E","R","E","-","G","A","S">>)) = gases
            /\ Entries(Param(t, <<"A","T","M","O","S","P","H","E","R","E","-","T","Y","P","E">>)) = [i \in 1..n |-> gas_type(gases[i])]
            /\ Entries(Param(t, <<"A","T","M","O","S","P","H","E","R","E","-","A","B","U","N">>)) = [i \in 1..n |-> <<"1">>]
            /\ Entries(Param(t, <<"A","T","M","O","S","P","H","E","R","E","-","U","N","I","T">>)) = [i \in 1..n |-> <<"s","c","l">>]
            /\ SubSeq(names, first + 1, first + n) = gases
            /\ \A j \in 1..Len(AerosolKeys) : HasKey(t, AerosolKeys[j]) <=> (k > 0)
            /\ (k > 0) =>
                  /\ IsDecimal(Param(t, <<"A","T","M","O","S","P","H","E","R","E","-","N","A","E","R","O">>))
                  /\ StrToNat(Param(t, <<"A","T","M","O","S","P","H","E","R","E","-","N","A","E","R","O">>)) = k
                  /\ Entries(Param(t, <<"A","T","M","O","S","P","H","E","R","E","-","A","E","R","O","S">>)) = aeros
                  /\ Entries(Param(t, <<"A","T","M","O","S","P","H","E","R","E","-","A","T","Y","P","E">>)) = [i \in 1..k |-> Lookup(atype, aeros[i])]
                  /\ Entries(Param(t, <<"A","T","M","O","S","P","H","E","R","E","-","A","A","B","U","N">>)) = [i \in 1..k |-> <<"1">>]
                  /\ Entries(Param(t, <<"A","T","M","O","S","P","H","E","R","E","-","A","U","N","I","T">>)) = [i \in 1..k |-> <<"s","c","l">>]
                  /\ Entries(Param(t, <<"A","T","M","O","S","P","H","E","R","E","-","A","S","I","Z","E">>)) = [i \in 1..k |-> <<"1">>]
                  /\ Entries(Param(t, <<"A","T","M","O","S","P","H","E","R","E","-","A","S","U","N","I">>)) = [i \in 1..k |-> <<"s","c","l">>]
                  /\ SubSeq(names, first + n + 1, first + n + k) = aeros

C14_Witness ==
    /\ op = "psg_params"
    /\ ret.err = ""
    /\ Len(planet.molecules.molecules) = 2
    /\ Len(AerosolNames(planet)) = 2
    /\ Entries(Param(ret.val, <<"A","T","M","O","S","P","H","E","R","E","-","G","A","S">>)) = <<<<"O">>, <<"H","2","O">>>>
    /\ Entries(Param(ret.val, <<"A","T","M","O","S","P","H","E","R","E","-","A","E","R","O","S">>)) = <<<<"W","a","t","e","r","I","c","e">>, <<"W","a","t","e","r">>>>

(***************************************************************************)
(* C15.  Whenever flat returns, an absent optional member contributes no   *)
(* element: len(flat) = n_lon*n_lat * (1 + the present ones of tsurf,      *)
(* albedo, emissivity) + n_layer*n_lon*n_lat * (1 + 2 if wind is present   *)
(* + 1 if temperature is present + the molecules + the aerosol abundance   *)
(* Fields + the aerosol size Fields), and the segments are, in order,      *)
(* wind_u, wind_v, tsurf, psurf, albedo, emissivity, temperature,          *)
(* pressure, the molecules, the aerosol abundances, the aerosol sizes.     *)
(***************************************************************************)
\* 1 for a present member, 0 for an absent one
Present(m) == IF m = None THEN 0 ELSE 1

\* the values of a member, none for an absent one
Seg(m) == IF m = None THEN <<>> ELSE Field_flat(m)

SegAll(fs) == Concat(FieldFlats(fs))

ExpectedLen(p) ==
    LET nlayer == shape(p)[1]
        nlon == shape(p)[2]
        nlat == shape(p)[3]
    IN  nlon * nlat * (1 + Present(p.tsurf) + Present(p.albedo) + Present(p.emissivity))
        + nlayer * nlon * nlat
            * (1 + 2 * Present(p.wind) + Present(p.temperature)
                 + (IF p.molecules = None THEN 0 ELSE Len(p.molecules.molecules))
                 + (IF p.aerosols = None THEN 0 ELSE Len(p.aerosols.aerosols))
                 + SizeCount(p))

ExpectedFlat(p) ==
    (IF p.wind = None THEN <<>> ELSE Seg(p.wind.wind_u) \o Seg(p.wind.wind_v))
    \o Seg(p.tsurf) \o Seg(p.psurf) \o Seg(p.albedo) \o Seg(p.emissivity)
    \o Seg(p.temperature) \o Seg(p.pressure)
    \o (IF p.molecules = None THEN <<>> ELSE SegAll(p.molecules.molecules))
    \o (IF p.aerosols = None THEN <<>> ELSE SegAll(p.aerosols.aerosols) \o SegAll(p.aerosols.sizes))

C15_FlatLengthAndOrder ==
    (op = "flat" /\ ret.err = "") =>
        /\ Len(ret.val) = ExpectedLen(planet)
        /\ ret.val = ExpectedFlat(planet)

C15_Witness ==
    /\ op = "flat"
    /\ ret.err = ""
    /\ planet.wind # None
    /\ planet.tsurf = None
    /\ planet.albedo = None
    /\ planet.temperature # None
    /\ planet.molecules # None
    /\ planet.aerosols = None
    /\ shape(planet) = <<1, MaxLon, MaxLat>>
    /\ Len(ret.val) = MaxLon * MaxLat * 2 + MaxLon * MaxLat * 5

(***************************************************************************)
(* get_wavelengths (src/VSPEC/stellar_spectra.py).                         *)
(*                                                                         *)
(* A Python float is a binary64 value.  A finite one that is not zero is   *)
(* [s, m, e]: sign s, significand m of Prec bits (most significant first;  *)
(* the first bit is 1 unless the value is subnormal, and then e = MinExp)  *)
(* and e the exponent of the last bit of m, so that the value is           *)
(* s * m * 2^e.  Sums and quotients are rounded to the nearest such value, *)
(* ties to the even significand, as binary64 arithmetic does.              *)
(***************************************************************************)
\* the bits of a binary64 significand
Prec == 53

\* the exponent of the smallest positive binary64 value, 2^-1074
MinExp == -1074

\* binary64 values are below 2^1024 in magnitude
MaxExp == 1024

Zero == [s |-> 0, m |-> <<>>, e |-> 0, inf |-> FALSE]

Inf(sign) == [s |-> sign, m |-> <<>>, e |-> 0, inf |-> TRUE]

\* the value of a set of one element: a value named in { ... : v \in {e}} is
\* computed once, however often v is used
Value(S) == CHOOSE v \in S : TRUE

Zeros(n) == [i \in 1..n |-> 0]

Ones(n) == [i \in 1..n |-> 1]

\* a bit string without its leading zeros
Strip(b) ==
    LET nz == {i \in 1..Len(b) : b[i] = 1}
    IN  IF nz = {} THEN <<>>
        ELSE SubSeq(b, CHOOSE i \in nz : \A j \in nz : i <= j, Len(b))

PadLeft(b, n) == Zeros(n - Len(b)) \o b

\* the bits of a natural number, most significant first
RECURSIVE NatBits(_)
NatBits(n) == IF n = 0 THEN <<>> ELSE NatBits(n \div 2) \o <<n % 2>>

\* b + 1
Inc(b) ==
    LET z == {i \in 1..Len(b) : b[i] = 0}
    IN  IF z = {} THEN <<1>> \o Zeros(Len(b))
        ELSE LET k == CHOOSE i \in z : \A j \in z : j <= i
             IN  [i \in 1..Len(b) |-> IF i < k THEN b[i] ELSE IF i = k THEN 1 ELSE 0]

\* bit strings are added and divided Limb bits at a time
Limb == 8

LimbBase == 256

\* the limbs of a bit string, most significant first
ToLimbs(b) ==
    LET n == (Len(b) + Limb - 1) \div Limb
        B == PadLeft(b, n * Limb)
    IN  [i \in 1..n |->
            LET o == (i - 1) * Limb
            IN  128 * B[o + 1] + 64 * B[o + 2] + 32 * B[o + 3] + 16 * B[o + 4]
                  + 8 * B[o + 5] + 4 * B[o + 6] + 2 * B[o + 7] + B[o + 8]]

\* the bit string of a sequence of limbs
FromLimbs(l) ==
    [i \in 1..(Len(l) * Limb) |->
        (l[((i - 1) \div Limb) + 1] \div Pow2(Limb - 1 - ((i - 1) % Limb))) % 2]

\* the carry out of the limbs i.. of x + y
RECURSIVE Carry(_, _, _)
Carry(x, y, i) ==
    IF i > Len(x) THEN 0 ELSE (x[i] + y[i] + Carry(x, y, i + 1)) \div LimbBase

\* X + Y, exactly, for limb strings of one length
AddLimbs(X, Y) ==
    <<Carry(X, Y, 1)>>
      \o Value({FromLimbs(l) :
                 l \in {[i \in 1..Len(X) |-> (X[i] + Y[i] + Carry(X, Y, i + 1)) % LimbBase]}})

\* x + y, exactly
AddBits(x, y) ==
    LET n == IF Len(x) > Len(y) THEN Len(x) ELSE Len(y)
    IN  Value({AddLimbs(X, Y) : X \in {ToLimbs(PadLeft(x, n))}, Y \in {ToLimbs(PadLeft(y, n))}})

\* the remainder of the first i limbs of N divided by q
RECURSIVE RemAt(_, _, _)
RemAt(N, q, i) == IF i = 0 THEN 0 ELSE (LimbBase * RemAt(N, q, i - 1) + N[i]) % q

\* the integer part of N / q, by long division, for q < 2^22
QuotLimbs(n, q) == [i \in 1..Len(n) |-> (LimbBase * RemAt(n, q, i - 1) + n[i]) \div q]

QuotBits(N, q) == Value({FromLimbs(l) : l \in {QuotLimbs(n, q) : n \in {ToLimbs(N)}}})

\* whether q divides N
Divides(q, N) == \E n \in {ToLimbs(N)} : RemAt(n, q, Len(n)) = 0

\* the binary64 value nearest to s * (b + f) * 2^e, where b has no leading
\* zero, 0 <= f < 1 and sticky says that f is not 0; a tie goes to the even
\* significand
RoundStripped(s, b, sticky, e) ==
    LET L == Len(b)
        t == IF e + L - Prec > MinExp THEN e + L - Prec ELSE MinExp
        d == t - e
        kept == IF d <= 0 THEN b \o Zeros(-d)
                ELSE IF d >= L THEN <<>>
                ELSE SubSeq(b, 1, L - d)
        guard == IF d >= 1 /\ d <= L THEN b[L - d + 1] ELSE 0
        rest == sticky \/ (d >= 2 /\ \E i \in (L - d + 2)..L : i >= 1 /\ b[i] = 1)
        odd == kept # <<>> /\ kept[Len(kept)] = 1
        r == IF guard = 1 /\ (rest \/ odd) THEN Inc(kept) ELSE kept
        m == IF Len(r) > Prec THEN SubSeq(r, 1, Prec) ELSE r
        x == IF Len(r) > Prec THEN t + 1 ELSE t
    IN  IF Strip(m) = <<>> THEN Zero
        ELSE IF x + Len(Strip(m)) > MaxExp THEN Inf(s)
        ELSE [s |-> s, m |-> PadLeft(m, Prec), e |-> x, inf |-> FALSE]

\* the binary64 value nearest to s * (bits + f) * 2^e
Round(s, bits, sticky, e) ==
    Value({RoundStripped(s, b, sticky, e) : b \in {Strip(v) : v \in {bits}}})

\* the float s * n * 2^e, for a natural number n
Float(s, n, e) == Round(s, NatBits(n), FALSE, e)

Sign(x) == x.s

\* |x| < |y|
MagLt(x, y) ==
    IF x.inf THEN FALSE
    ELSE IF y.inf THEN TRUE
    ELSE \/ x.e < y.e
         \/ /\ x.e = y.e
            /\ \E i \in 1..Prec : /\ x.m[i] < y.m[i]
                                  /\ \A j \in 1..(i - 1) : x.m[j] = y.m[j]

\* x < y
float_lt(x, y) ==
    IF x.s # y.s THEN x.s < y.s
    ELSE IF x.s = 0 THEN FALSE
    ELSE IF x.s > 0 THEN MagLt(x, y)
    ELSE MagLt(y, x)

\* a resolving power q * 2^k, q an odd natural number
Rp(q, k) == [q |-> q, k |-> k]

\* x / y for a float x and y = q * 2^k > 0: the quotient of the significand by
\* q with enough bits to round it, and the exponent lowered by k
float_div(x, y) ==
    IF x.s = 0 \/ x.inf THEN x
    ELSE LET K == Len(NatBits(y.q)) + 2 + (IF y.k < 0 THEN -y.k ELSE 0)
             N == x.m \o Zeros(K)
         IN  Round(x.s, QuotBits(N, y.q), ~Divides(y.q, N), x.e - K - y.k)

\* x + d, for d of the sign of x or zero (as lam / resolving_power is for a
\* positive resolving power).  A term below a quarter of the unit in the last
\* place of the other counts only as a fraction that is not zero
float_add(x, d) ==
    IF d.s = 0 THEN x
    ELSE IF x.s = 0 THEN d
    ELSE IF x.inf THEN x
    ELSE IF d.inf THEN d
    ELSE IF d.e + Prec <= x.e - 2 THEN Round(x.s, x.m \o <<0, 0>>, TRUE, x.e - 2)
    ELSE IF x.e + Prec <= d.e - 2 THEN Round(x.s, d.m \o <<0, 0>>, TRUE, d.e - 2)
    ELSE LET lo == IF x.e < d.e THEN x.e ELSE d.e
         IN  Round(x.s, AddBits(x.m \o Zeros(x.e - lo), d.m \o Zeros(d.e - lo)), FALSE, lo)

\* np.array(lams): the array of the listed points
np_array(lams) == [dat |-> lams]

\* the loop test with the bound included
while_cond_inclusive(lam, lam2) == ~float_lt(lam2, lam)

\* while lam < lam2
while_cond(lam, lam2) == float_lt(lam, lam2)

\* dlam = lam / resolving_power; lam = lam + dlam
next_lam(lam, resolving_power) ==
    Value({float_add(lam, dlam) : dlam \in {float_div(lam, resolving_power)}})

\* lams.append(lam)
lams_append(lams, lam) == Append(lams, lam)

\* the call returned v
Returns(v) == [running |-> FALSE, val |-> v]

\* the call is in its loop for ever, with lam at this value
Runs(lam) == [running |-> TRUE, lam |-> lam]

\* the loop of get_wavelengths from the state (lam, lams).  The test reads lam
\* alone and a pass computes the next lam from lam alone, so after a pass that
\* finds the test true and leaves lam as it is every later pass does the
\* same: the loop appends that lam for ever and the call has no result
RECURSIVE while_loop(_, _, _, _)
while_loop(lam, lams, resolving_power, lam2) ==
    IF ~while_cond(lam, lam2) THEN Returns(np_array(lams))
    ELSE Value({IF lam_next = lam THEN Runs(lam)
                ELSE while_loop(lam_next, lams_append(lams, lam_next), resolving_power, lam2) :
                lam_next \in {next_lam(lam, resolving_power)}})

\* lam = lam1; lams = [lam]; the loop; return np.array(lams)
get_wavelengths(resolving_power, lam1, lam2) ==
    while_loop(lam1, <<lam1>>, resolving_power, lam2)

\* float(i) for an integer i
FloatInt(i) == IF i < 0 THEN Float(-1, -i, 0) ELSE Float(1, i, 0)

\* 1.0 + n * 2^-52, the n-th float above 1.0
AboveOne(n) == [s |-> 1, m |-> <<1>> \o PadLeft(NatBits(n), Prec - 1), e |-> 1 - Prec, inf |-> FALSE]

\* 2.0 - 2^-52, the float below 2.0
BelowTwo == [s |-> 1, m |-> Ones(Prec), e |-> 1 - Prec, inf |-> FALSE]

\* 2.0 + n * 2^-51, the n-th float above 2.0
AboveTwo(n) == [s |-> 1, m |-> <<1>> \o PadLeft(NatBits(n), Prec - 1), e |-> 2 - Prec, inf |-> FALSE]

\* n * 2^-1074, the n-th float above 0.0
Tiny(n) == Float(1, n, MinExp)

\* the wavelengths a caller asks for: -1 .. MaxLam for lam1, 0 .. MaxLam for lam2
MaxLam == 3

\* the floats above 1.0, above 2.0 and above 0.0 a caller asks for: up to the
\* MaxUlps-th
MaxUlps == 3

\* resolving powers whose grids are followed over whole wavelengths: 1, 2, 4
SmallRps == {Rp(1, 0), Rp(1, 1), Rp(1, 2)}

\* resolving power 50, the default of bin_raw_data
DefaultRp == Rp(25, 1)

\* the wavelengths a caller asks for with resolving power 50: 1.0 and the
\* eighths above it, up to the MaxEighths-th
MaxEighths == 2

Eighths == {Float(1, 8 + j, -3) : j \in 0..MaxEighths}

\* resolving powers 2^52, 2^53 and 2^54
LargeRps == {Rp(1, 52), Rp(1, 53), Rp(1, 54)}

NearOne == {AboveOne(n) : n \in 0..MaxUlps}

NearTwo == {BelowTwo} \cup {AboveTwo(n) : n \in 0..MaxUlps}

NearZero == {Tiny(n) : n \in 1..(MaxUlps + 1)}

\* the calls of the model.  With a large resolving power lam2 lies within a
\* few floats of lam1, or the loop stops moving at once or at 2.0: a grid of
\* resolving power 2^52 from 1.0 to 2.0 has more than 2^51 points.  A negative
\* lam1 is -1.0, or -2^1021, from where lam is -inf after a few passes
WavelengthArgs ==
    {[resolving_power |-> r, lam1 |-> FloatInt(a), lam2 |-> FloatInt(b)] :
        r \in SmallRps, a \in 0..MaxLam, b \in 0..MaxLam}
    \cup {[resolving_power |-> DefaultRp, lam1 |-> a, lam2 |-> b] :
        a \in Eighths \cup {Zero}, b \in Eighths}
    \cup {[resolving_power |-> Rp(1, 54), lam1 |-> FloatInt(-1), lam2 |-> FloatInt(b)] :
        b \in 0..MaxLam}
    \cup {[resolving_power |-> r, lam1 |-> Float(-1, 1, MaxExp - 3), lam2 |-> FloatInt(b)] :
        r \in {Rp(1, 0), Rp(1, 1)}, b \in 0..MaxLam}
    \cup {[resolving_power |-> r, lam1 |-> a, lam2 |-> b] :
        r \in LargeRps, a \in NearOne, b \in NearOne}
    \cup {[resolving_power |-> r, lam1 |-> a, lam2 |-> b] :
        r \in LargeRps, a \in NearTwo, b \in NearTwo}
    \cup {[resolving_power |-> Rp(1, 53), lam1 |-> a, lam2 |-> FloatInt(MaxLam)] :
        a \in {AboveOne(0), BelowTwo}}
    \cup {[resolving_power |-> Rp(1, 54), lam1 |-> a, lam2 |-> FloatInt(MaxLam)] :
        a \in NearOne \cup NearTwo}
    \cup {[resolving_power |-> r, lam1 |-> a, lam2 |-> b] :
        r \in SmallRps \cup {DefaultRp}, a \in NearZero, b \in NearZero}

(***************************************************************************)
(* One call of get_wavelengths.                                            *)
(***************************************************************************)
Init_get_wavelengths ==
    /\ input \in WavelengthArgs
    /\ planet = None
    /\ op = "call"
    /\ ret = Ok(None)
    /\ frame = None

\* the call: it returns the array, or stays in its loop
Call_get_wavelengths ==
    /\ op = "call"
    /\ \E r \in {get_wavelengths(input.resolving_power, input.lam1, input.lam2)} :
          IF r.running
          THEN op' = "while" /\ frame' = [lam |-> r.lam] /\ ret' = ret
          ELSE op' = "return" /\ frame' = frame /\ ret' = Ok(r.val)
    /\ UNCHANGED <<input, planet>>

Next_get_wavelengths == Call_get_wavelengths

WavelengthSpec == Init_get_wavelengths /\ [][Next_get_wavelengths]_vars

(***************************************************************************)
(* C16.  What a returned grid is, and when the loop ends.                  *)
(***************************************************************************)
Returned == op = "return"

Called == op # "call"

Positive(x) == Sign(x) > 0

\* the returned points: first lam1, each next the previous plus
\* previous/resolving_power, strictly increasing, and the last one the only
\* one that is not below lam2
GridOk(lams, args) ==
    /\ Len(lams) >= 1
    /\ lams[1] = args.lam1
    /\ \A i \in 1..(Len(lams) - 1) :
          /\ lams[i + 1] = next_lam(lams[i], args.resolving_power)
          /\ float_lt(lams[i], lams[i + 1])
          /\ float_lt(lams[i], args.lam2)
    /\ ~float_lt(lams[Len(lams)], args.lam2)

\* lam1 <= 0 < lam2
NonPositiveStart(args) == ~Positive(args.lam1) /\ Positive(args.lam2)

\* resolving_power <= 2^52: the step lam / resolving_power of a normal lam is
\* at least one unit in the last place of lam
AtMost2To52(r) == Len(NatBits(r.q)) + r.k <= Prec - 1 \/ (r.q = 1 /\ r.k <= Prec - 1)

\* resolving_power >= 2^54: the step is below half a unit in the last place
AtLeast2To54(r) == Len(NatBits(r.q)) + r.k > Prec + 1

\* x >= 2^-1022
Normal(x) == x.inf \/ (x.s # 0 /\ x.m[1] = 1)

\* the loop is in a state it does not leave: the test holds and a pass gives
\* lam the value it has
LoopStalls ==
    /\ op = "while"
    /\ while_cond(frame.lam, input.lam2)
    /\ next_lam(frame.lam, input.resolving_power) = frame.lam

====
